---------------------------- MODULE Spec2Model ----------------------------
(***************************************************************************)
(* Bloch-sphere simulator (kardosmate/Bloch_Sim).                          *)
(*                                                                         *)
(* Part 1: the quantum-state engine of math.js (complex arithmetic,        *)
(* state <-> Bloch conversion, gate library, matrix application).         *)
(* Part 2: the qubit registry and the event handlers of main.js.           *)
(*                                                                         *)
(* Numbers.  A JavaScript number r is modelled by the integer nearest to   *)
(* r * SCALE (fixed point).  Every arithmetic operation of the source is   *)
(* translated to the same operation followed by rounding to the nearest    *)
(* representable value, as IEEE arithmetic does at its own resolution.     *)
(* Functions of the direction of a vector alone bring the vector to full   *)
(* resolution first, as the floating exponent does.  Comparisons "within   *)
(* tolerance" use Tol, a few hundred resolution steps.                     *)
(* Signed zero, NaN and Infinity are not represented.                      *)
(***************************************************************************)
EXTENDS Integers, Sequences, FiniteSets, TLC

\* Resolution of the fixed-point numbers: 1.0 is SCALE.
SCALE == 10000

\* n / d rounded to the nearest integer, halves away from zero (d > 0).
Rnd(n, d) ==
  IF n >= 0 THEN (n + d \div 2) \div d ELSE -(((-n) + d \div 2) \div d)

Abs(v) == IF v < 0 THEN -v ELSE v

\* a * b and a / b on fixed-point numbers.
FMul(a, b) == Rnd(a * b, SCALE)
FDiv(a, b) == Rnd(a * SCALE, b)

\* Integer square root, rounded to the nearest integer.
RECURSIVE ISqrtSearch(_, _, _)
ISqrtSearch(n, lo, hi) ==
  IF lo >= hi THEN lo
  ELSE LET mid == (lo + hi + 1) \div 2
       IN  IF mid * mid <= n THEN ISqrtSearch(n, mid, hi)
           ELSE ISqrtSearch(n, lo, mid - 1)

ISqrt(n) ==
  LET r == ISqrtSearch(n, 0, 46340)
  IN  IF n - r * r > r THEN r + 1 ELSE r

\* Math.sqrt on a fixed-point number.
Sqrt(v) == ISqrt(v * SCALE)

\* The fixed-point image of the threshold 10^-e: v < 10^-e  <=>  v < Eps(e).
RECURSIVE Eps(_)
Eps(e) == IF e = 0 THEN SCALE ELSE (Eps(e - 1) + 9) \div 10

\* Math.PI (355/113 agrees with pi to 3e-7, below the resolution).
PI == Rnd(355 * SCALE, 113)

Max(a, b) == IF a >= b THEN a ELSE b

\* IEEE numbers keep their relative precision at every magnitude; fixed-point
\* numbers lose it near zero and run out of range far from it.  x / norm and
\* v * (1 / Math.sqrt(s)) depend only on the direction of their vector, so the
\* functions that compute them first bring the vector to full resolution, as
\* the floating exponent does: ToFull(v, m) is the component v of a vector
\* whose largest component has size m > 0, scaled so that the largest
\* component lies in (SCALE / 2, SCALE].
ToFull(v, m) ==
  IF m > SCALE THEN Rnd(v, (m - 1) \div SCALE + 1) ELSE v * (SCALE \div m)

\* The size of the largest component of (x, y, z).
MaxAbs3(x, y, z) == Max(Abs(x), Max(Abs(y), Abs(z)))

\* Taylor series  term - term*x2/(n(n+1)) + ... , summed until the terms vanish.
RECURSIVE Series(_, _, _, _)
Series(x2, term, n, acc) ==
  IF term = 0 THEN acc
  ELSE Series(x2, -Rnd(FMul(term, x2), n * (n + 1)), n + 2, acc + term)

\* One turn, 2 pi = 6.28318530718, as a whole number of resolution steps and
\* the rest in 1e-5 of a step.
TurnParts == SCALE * 28318 + Rnd(SCALE * 53072, 100000)
TurnSteps == 6 * SCALE + TurnParts \div 100000
TurnRest == TurnParts % 100000

\* k turns, to the nearest resolution step.
Turns(k) ==
  k * TurnSteps
    + Rnd((k \div 100) * TurnRest + Rnd((k % 100) * TurnRest, 100), 1000)

\* Argument reduction to (-PI, PI]: Math.sin and Math.cos reduce their
\* argument by the exact 2 pi, so whole turns are taken off at that precision.
Wrap(t) ==
  LET r == t - Turns(t \div TurnSteps)
  IN  ((r + PI - 1) % (2 * PI)) - (PI - 1)

\* Math.sin and Math.cos.
Sin(t) ==
  LET r == Wrap(t)
      q == IF 2 * r > PI THEN PI - r ELSE IF 2 * r < -PI THEN -PI - r ELSE r
  IN  Series(FMul(q, q), q, 2, 0)

Cos(t) ==
  LET r == Wrap(t)
      q == IF 2 * r > PI THEN PI - r ELSE IF 2 * r < -PI THEN -PI - r ELSE r
      c == Series(FMul(q, q), SCALE, 1, 0)
  IN  IF q = r THEN c ELSE -c

\* Math.cos(Math.acos(zn) / 2) and Math.sin(Math.acos(zn) / 2) for
\* zn = z / norm, norm the length of a vector with components x, y, z and
\* h the length of (x, y): theta / 2 lies in [0, pi/2], so both are the
\* non-negative roots of the half-angle identities
\*   cos^2 = (1 + zn) / 2 = h^2 / (2 norm (norm - z)),
\*   sin^2 = (1 - zn) / 2 = h^2 / (2 norm (norm + z)).
\* Next to a pole 1 - |zn| lies below the resolution while the source holds it
\* to sixteen digits; the second form of each identity keeps it.
CosHalfAcos(h, z, norm) ==
  IF z > 0 THEN ISqrt(((SCALE + FDiv(z, norm)) * SCALE) \div 2)
  ELSE FDiv(h, ISqrt(2 * norm * (norm - z)))
SinHalfAcos(h, z, norm) ==
  IF z < 0 THEN ISqrt(((SCALE - FDiv(z, norm)) * SCALE) \div 2)
  ELSE FDiv(h, ISqrt(2 * norm * (norm + z)))

\* Math.cos(Math.atan2(yn, xn)) and Math.sin(Math.atan2(yn, xn)): the unit
\* direction of (xn, yn); Math.atan2(0, 0) is 0.  The direction does not
\* depend on the length of (xn, yn), so the pair is first brought to full
\* resolution.
Hypot(yn, xn) == ISqrt(xn * xn + yn * yn)
CosAtan2(yn, xn) ==
  IF xn = 0 /\ yn = 0 THEN SCALE
  ELSE LET m == Max(Abs(xn), Abs(yn))
           fx == ToFull(xn, m)
           fy == ToFull(yn, m)
       IN  FDiv(fx, Hypot(fy, fx))
SinAtan2(yn, xn) ==
  IF xn = 0 /\ yn = 0 THEN 0
  ELSE LET m == Max(Abs(xn), Abs(yn))
           fx == ToFull(xn, m)
           fy == ToFull(yn, m)
       IN  FDiv(fy, Hypot(fy, fx))

---------------------------------------------------------------------------
\* Complex numbers { re, im }.
C(re, im) == [re |-> re, im |-> im]

add(a, b) == C(a.re + b.re, a.im + b.im)
mul(a, b) ==
  C(FMul(a.re, b.re) - FMul(a.im, b.im), FMul(a.re, b.im) + FMul(a.im, b.re))
scale(a, k) == C(FMul(a.re, k), FMul(a.im, k))
\* conj that returns its argument.
conj_Identity(a) == C(a.re, a.im)

conj(a) == C(a.re, -a.im)
abs2(a) == FMul(a.re, a.re) + FMul(a.im, a.im)

\* THREE.Vector3 / { x, y, z }.
Vector3(x, y, z) == [x |-> x, y |-> y, z |-> z]

\* The outcome of a call: a returned value, or a thrown error of some kind.
Return(v) == [err |-> "none", val |-> v]
Throw(kind) == [err |-> kind, val |-> <<>>]

\* The kinds of thrown errors.
InvalidDimension == "InvalidDimension"    \* 'Csak egyqubites allapotok tamogatottak'
DimensionMismatch == "DimensionMismatch"  \* 'Meretek nem egyeznek'
MatrixFormat == "MatrixFormat"            \* 'Matrix formatum hibas'
TypeError == "TypeError"                  \* property access on undefined

\* A matrix argument as a JavaScript value: an array of rows, an array whose
\* elements are not arrays, or undefined.
Mat(rows) == [tag |-> "rows", rows |-> rows]
Flat(elems) == [tag |-> "flat", rows |-> elems]
Undefined == [tag |-> "undefined", rows |-> <<>>]

\* stateToBloch with the operands of z in the wrong order.
stateToBloch_SwappedZ(state) ==
  IF Len(state) # 2 THEN Throw(InvalidDimension)
  ELSE LET alphaBeta == mul(conj(state[1]), state[2])
       IN  Return(Vector3(2 * alphaBeta.re, 2 * alphaBeta.im,
                          abs2(state[2]) - abs2(state[1])))

\* stateToBloch that rejects only states of fewer than two amplitudes.
stateToBloch_AtLeastTwo(state) ==
  IF Len(state) < 2 THEN Throw(InvalidDimension)
  ELSE LET alphaBeta == mul(conj(state[1]), state[2])
       IN  Return(Vector3(2 * alphaBeta.re, 2 * alphaBeta.im,
                          abs2(state[1]) - abs2(state[2])))

stateToBloch(state) ==
  IF Len(state) # 2 THEN Throw(InvalidDimension)
  ELSE LET alpha == state[1]
           beta == state[2]
           alphaConj == conj(alpha)
           alphaBeta == mul(alphaConj, beta)
           x == 2 * alphaBeta.re
           y == 2 * alphaBeta.im
           z == abs2(alpha) - abs2(beta)
       IN  Return(Vector3(x, y, z))

\* The zero vector as the state of a degenerate coordinate.
DefaultState_Zero == <<C(0, 0), C(0, 0)>>

\* The state returned for a degenerate coordinate: |0>.
DefaultState == <<C(SCALE, 0), C(0, 0)>>

\* blochToState that shrinks a coordinate outside the unit sphere and leaves a
\* coordinate inside it as it comes.
blochToState_ShrinkOnly(p) ==
  LET m == MaxAbs3(p.x, p.y, p.z)
  IN  IF m < Eps(9) THEN DefaultState
      ELSE LET x == IF m > SCALE THEN ToFull(p.x, m) ELSE p.x
               y == IF m > SCALE THEN ToFull(p.y, m) ELSE p.y
               z == IF m > SCALE THEN ToFull(p.z, m) ELSE p.z
               norm == Max(ISqrt(x * x + y * y + z * z), SCALE)
               zn == FDiv(z, norm)
               alpha == C(ISqrt(((SCALE + zn) * SCALE) \div 2), 0)
               sinHalf == ISqrt(((SCALE - zn) * SCALE) \div 2)
               beta == C(FMul(sinHalf, CosAtan2(p.y, p.x)),
                         FMul(sinHalf, SinAtan2(p.y, p.x)))
           IN  <<alpha, beta>>

\* norm < 1e-9 holds, among the representable coordinates, for (0, 0, 0)
\* alone: norm is at least the size m of the largest component.  Otherwise
\* x / norm, y / norm and z / norm are computed at full resolution, with
\* x*x + y*y + z*z rounded once, under the root.  The quotients xn and yn
\* keep their relative precision in the source, however small they are next
\* to zn, so phi = Math.atan2(yn, xn) is the direction of (x, y).
blochToState(p) ==
  LET m == MaxAbs3(p.x, p.y, p.z)
  IN  IF m < Eps(9) THEN DefaultState
      ELSE LET x == ToFull(p.x, m)
               y == ToFull(p.y, m)
               z == ToFull(p.z, m)
               norm == ISqrt(x * x + y * y + z * z)
               h == ISqrt(x * x + y * y)
               alpha == C(CosHalfAcos(h, z, norm), 0)
               beta == C(FMul(SinHalfAcos(h, z, norm), CosAtan2(p.y, p.x)),
                         FMul(SinHalfAcos(h, z, norm), SinAtan2(p.y, p.x)))
           IN  <<alpha, beta>>

\* acc after the columns c..cols of row: the inner loop of matrixVectorMultiply.
RECURSIVE RowTimes(_, _, _, _, _)
RowTimes(row, vec, c, cols, acc) ==
  IF c > cols THEN acc
  ELSE RowTimes(row, vec, c + 1, cols, add(acc, mul(row[c], vec[c])))

matrixVectorMultiply(mat, vec) ==
  IF mat.tag = "undefined" THEN Throw(TypeError)
  ELSE IF mat.tag = "flat" \/ Len(mat.rows) = 0 THEN Throw(MatrixFormat)
  ELSE LET rows == Len(mat.rows)
           cols == Len(mat.rows[1])
       IN  IF Len(vec) # cols THEN Throw(DimensionMismatch)
           ELSE IF \E r \in 1..rows : Len(mat.rows[r]) < cols
                THEN Throw(TypeError)
           ELSE Return([r \in 1..rows |->
                          RowTimes(mat.rows[r], vec, 1, cols, C(0, 0))])

RECURSIVE SumAbs2(_, _)
SumAbs2(vec, i) == IF i > Len(vec) THEN 0 ELSE abs2(vec[i]) + SumAbs2(vec, i + 1)

\* normalize that divides by the sum instead of by its square root.
normalize_BySum(vec) ==
  LET s == SumAbs2(vec, 1)
  IN  IF s < Eps(12) THEN vec
      ELSE LET norm == FDiv(SCALE, s)
           IN  [i \in 1..Len(vec) |-> scale(vec[i], norm)]

\* The size of the largest real or imaginary part in vec[i..].
RECURSIVE MaxAbsOf(_, _)
MaxAbsOf(vec, i) ==
  IF i > Len(vec) THEN 0
  ELSE Max(Max(Abs(vec[i].re), Abs(vec[i].im)), MaxAbsOf(vec, i + 1))

\* s < 1e-12 holds, among the representable vectors, for the zero vector
\* alone: s is at least m * m, m the size of the largest part, and a non-zero
\* m is at least 1e-4.  Otherwise s, norm and the scaled amplitudes are
\* computed at full resolution.
normalize(vec) ==
  LET m == MaxAbsOf(vec, 1)
  IN  IF m < Eps(6) THEN vec
      ELSE LET full == [i \in 1..Len(vec) |->
                          C(ToFull(vec[i].re, m), ToFull(vec[i].im, m))]
               s == SumAbs2(full, 1)
               norm == FDiv(SCALE, Sqrt(s))
           IN  [i \in 1..Len(vec) |-> scale(full[i], norm)]

ket0 == <<C(SCALE, 0), C(0, 0)>>
ket1 == <<C(0, 0), C(SCALE, 0)>>
ketPlus == normalize(<<C(SCALE, 0), C(SCALE, 0)>>)
ketMinus == normalize(<<C(SCALE, 0), C(-SCALE, 0)>>)

PAULI_X == Mat(<< <<C(0, 0), C(SCALE, 0)>>,
                  <<C(SCALE, 0), C(0, 0)>> >>)

PAULI_Y == Mat(<< <<C(0, 0), C(0, -SCALE)>>,
                  <<C(0, SCALE), C(0, 0)>> >>)

\* Pauli-Z without its minus sign.
PAULI_Z_NoSign == Mat(<< <<C(SCALE, 0), C(0, 0)>>,
                         <<C(0, 0), C(SCALE, 0)>> >>)

PAULI_Z == Mat(<< <<C(SCALE, 0), C(0, 0)>>,
                  <<C(0, 0), C(-SCALE, 0)>> >>)

\* 1/2 instead of 1/sqrt(2).
H_NoRoot == FDiv(SCALE, 2 * SCALE)

H == FDiv(SCALE, Sqrt(2 * SCALE))

\* The Hadamard matrix without the minus sign of its last entry.
HADAMARD_AllPlus == Mat(<< <<C(H, 0), C(H, 0)>>,
                           <<C(H, 0), C(H, 0)>> >>)

HADAMARD == Mat(<< <<C(H, 0), C(H, 0)>>,
                   <<C(H, 0), C(-H, 0)>> >>)

S_GATE == Mat(<< <<C(SCALE, 0), C(0, 0)>>,
                 <<C(0, 0), C(0, SCALE)>> >>)

T_ANGLE == Rnd(PI, 4)
T_GATE == Mat(<< <<C(SCALE, 0), C(0, 0)>>,
                 <<C(0, 0), C(Cos(T_ANGLE), Sin(T_ANGLE))>> >>)

\* The phase gate with the conjugate phase, cos(theta) - i sin(theta).
PHASE_GATE_Conjugate(theta) == Mat(<< <<C(SCALE, 0), C(0, 0)>>,
                                      <<C(0, 0), C(Cos(theta), -Sin(theta))>> >>)

PHASE_GATE(theta) == Mat(<< <<C(SCALE, 0), C(0, 0)>>,
                            <<C(0, 0), C(Cos(theta), Sin(theta))>> >>)

applyGate(gateMatrix, stateVector) == matrixVectorMultiply(gateMatrix, stateVector)

applyAndConvert(cartesian, gateMatrix) ==
  LET state == blochToState(cartesian)
      newstate == applyGate(gateMatrix, state)
  IN  IF newstate.err # "none" THEN newstate ELSE stateToBloch(newstate.val)

\* The body shared by applyPauliX ... applyPhaseGate.
ApplyNormalized(blochVec, gateMatrix) ==
  LET state == blochToState(blochVec)
      applied == applyGate(gateMatrix, state)
  IN  IF applied.err # "none" THEN applied
      ELSE stateToBloch(normalize(applied.val))

applyPauliX(blochVec) == ApplyNormalized(blochVec, PAULI_X)
applyPauliY(blochVec) == ApplyNormalized(blochVec, PAULI_Y)
applyPauliZ(blochVec) == ApplyNormalized(blochVec, PAULI_Z)
\* applyHadamard as a copy of applyPauliX with the matrix left unchanged.
applyHadamard_PauliX(blochVec) == ApplyNormalized(blochVec, PAULI_X)

applyHadamard(blochVec) == ApplyNormalized(blochVec, HADAMARD)
applySGate(blochVec) == ApplyNormalized(blochVec, S_GATE)
applyTGate(blochVec) == ApplyNormalized(blochVec, T_GATE)
applyPhaseGate(blochVec, theta) == ApplyNormalized(blochVec, PHASE_GATE(theta))

---------------------------------------------------------------------------
(***************************************************************************)
(* The engine as called by a client: a coordinate register p and a state  *)
(* register st, and one action per exported or internal operation.  Every  *)
(* call is logged with its arguments and its outcome; a call that throws   *)
(* leaves the registers as they were.                                      *)
(***************************************************************************)

\* Bounds of the inputs.
GridN == 3        \* unit inputs are the lattice points (a, b, c) / GridN
MaxCalls == 2     \* calls made in succession from one input

\* Comparison within tolerance: three times the square root of the resolution.
Tol == 3 * ISqrt(SCALE)
Close(p, q) ==
  /\ Abs(p.x - q.x) <= Tol
  /\ Abs(p.y - q.y) <= Tol
  /\ Abs(p.z - q.z) <= Tol

\* x^2 + y^2 + z^2 of a coordinate.
LengthSq(p) == FMul(p.x, p.x) + FMul(p.y, p.y) + FMul(p.z, p.z)
IsUnit(p) == Abs(LengthSq(p) - SCALE) <= Tol

\* Unit coordinates: the points of the integer lattice on the sphere of
\* radius GridN, scaled to radius 1.
UnitInputs ==
  { Vector3(Rnd(a * SCALE, GridN), Rnd(b * SCALE, GridN), Rnd(c * SCALE, GridN)) :
      <<a, b, c>> \in { t \in (-GridN..GridN) \X (-GridN..GridN) \X (-GridN..GridN) :
                          t[1] * t[1] + t[2] * t[2] + t[3] * t[3] = GridN * GridN } }

\* Coordinates off the sphere, among them two of a few resolution steps and
\* one four times the radius, and the origin.
OffSphereInputs ==
  { Vector3(2 * SCALE, 0, 0), Vector3(SCALE, SCALE, 0), Vector3(0, 0, SCALE \div 2),
    Vector3(SCALE \div 2, -SCALE, SCALE), Vector3(0, 0, 0),
    Vector3(2, 0, 2), Vector3(2, 2, 4), Vector3(4 * SCALE, 0, 0) }

\* Unit coordinates next to the poles, a tenth of the radius off the axis.
NearPole == SCALE \div 10
NearPoleInputs ==
  LET zp == ISqrt(SCALE * SCALE - NearPole * NearPole)
  IN  { Vector3(NearPole, 0, zp), Vector3(0, -NearPole, zp),
        Vector3(-NearPole, 0, -zp), Vector3(0, NearPole, -zp) }

CoordInputs == UnitInputs \cup NearPoleInputs \cup OffSphereInputs

\* States: one, two and three amplitudes; normalized or not, among them
\* one of amplitudes 2.
StateInputs ==
  { ket0, ket1,
    <<C(H, 0), C(0, H)>>,
    <<C(SCALE, 0), C(SCALE, 0)>>,
    <<C(0, 0), C(0, 0)>>,
    <<C(SCALE, 0)>>,
    <<C(SCALE, 0), C(0, 0), C(0, 0)>>,
    <<C(2 * SCALE, 0), C(2 * SCALE, 0), C(2 * SCALE, 0)>> }

\* Vectors of amplitude 0.005 and of a few resolution steps: arguments a
\* client passes to normalize.
SmallStateInputs ==
  { <<C(SCALE \div 200, 0), C(0, 0)>>, <<C(3, 4), C(5, 6)>>, <<C(0, 3)>> }

\* Angles (radians) for the phase gate.
ThetaInputs == { Rnd(PI, 2), T_ANGLE, SCALE }

\* The gate library, by name.
LibraryNames == { "PAULI_X", "PAULI_Y", "PAULI_Z", "HADAMARD", "S_GATE", "T_GATE" }
Library(name) ==
  CASE name = "PAULI_X" -> PAULI_X
    [] name = "PAULI_Y" -> PAULI_Y
    [] name = "PAULI_Z" -> PAULI_Z
    [] name = "HADAMARD" -> HADAMARD
    [] name = "S_GATE" -> S_GATE
    [] name = "T_GATE" -> T_GATE

\* Matrices a caller may pass instead of a library gate: 2x2 matrices that
\* are not unitary, matrices of other shapes, and values that are no matrix.
CallerNames == { "HALF", "MIX", "PROJECT1", "I3", "M3x2", "M2x3", "FLAT",
                 "EMPTY", "RAGGED", "UNDEFINED" }
Caller(name) ==
  CASE name = "HALF" -> Mat(<< <<C(SCALE \div 2, 0), C(0, 0)>>,
                               <<C(0, 0), C(SCALE \div 2, 0)>> >>)
    [] name = "MIX" -> Mat(<< <<C(SCALE \div 2, 0), C(SCALE \div 2, 0)>>,
                              <<C(0, 0), C(SCALE \div 2, 0)>> >>)
    [] name = "PROJECT1" -> Mat(<< <<C(0, 0), C(0, 0)>>,
                                   <<C(0, 0), C(SCALE, 0)>> >>)
    [] name = "I3" -> Mat(<< <<C(SCALE, 0), C(0, 0), C(0, 0)>>,
                             <<C(0, 0), C(SCALE, 0), C(0, 0)>>,
                             <<C(0, 0), C(0, 0), C(SCALE, 0)>> >>)
    [] name = "M3x2" -> Mat(<< <<C(SCALE, 0), C(0, 0)>>,
                               <<C(0, 0), C(SCALE, 0)>>,
                               <<C(0, 0), C(0, 0)>> >>)
    [] name = "M2x3" -> Mat(<< <<C(SCALE, 0), C(0, 0), C(0, 0)>>,
                               <<C(0, 0), C(SCALE, 0), C(0, 0)>> >>)
    [] name = "FLAT" -> Flat(<<C(SCALE, 0), C(0, 0)>>)
    [] name = "EMPTY" -> Mat(<<>>)
    [] name = "RAGGED" -> Mat(<< <<C(SCALE, 0), C(0, 0)>>, <<C(SCALE, 0)>> >>)
    [] name = "UNDEFINED" -> Undefined

\* A matrix argument: [name, theta]; theta is read by PHASE_GATE only.
Gate(name, theta) == [name |-> name, theta |-> theta]
GateArgs ==
  { Gate(n, 0) : n \in LibraryNames \cup CallerNames }
    \cup { Gate("PHASE_GATE", t) : t \in ThetaInputs }
ConvertArgs ==
  { Gate(n, 0) : n \in LibraryNames
                      \cup { "HALF", "MIX", "PROJECT1", "I3", "M3x2", "FLAT", "UNDEFINED" } }
    \cup { Gate("PHASE_GATE", t) : t \in ThetaInputs }
LibraryArgs ==
  { Gate(n, 0) : n \in LibraryNames } \cup { Gate("PHASE_GATE", t) : t \in ThetaInputs }
Matrix(g) ==
  IF g.name = "PHASE_GATE" THEN PHASE_GATE(g.theta)
  ELSE IF g.name \in LibraryNames THEN Library(g.name)
  ELSE Caller(g.name)

\* The exported gate functions: applyPauliX ... applyPhaseGate.
Exported(g, blochVec) ==
  CASE g.name = "PAULI_X" -> applyPauliX(blochVec)
    [] g.name = "PAULI_Y" -> applyPauliY(blochVec)
    [] g.name = "PAULI_Z" -> applyPauliZ(blochVec)
    [] g.name = "HADAMARD" -> applyHadamard(blochVec)
    [] g.name = "S_GATE" -> applySGate(blochVec)
    [] g.name = "T_GATE" -> applyTGate(blochVec)
    [] g.name = "PHASE_GATE" -> applyPhaseGate(blochVec, g.theta)

VARIABLES
  p0,    \* the coordinate the client started from
  st0,   \* the state the client started from
  p,     \* coordinate register: the last coordinate returned
  st,    \* state register: the last state returned
  log,   \* the calls made: [op, g, p, st, ret]
  gates, \* the exported gate constants, by name: module-level arrays
  heap,  \* the objects in memory, by reference (used by SpecPure)
  result \* the reference the last call returned, or Null (used by SpecPure)

coreVars == <<p0, st0, p, st, log, gates, heap, result>>

\* The page of main.js.
VARIABLES
  qbits,         \* the registry: a list of Qbit objects [id, initial, current, color]
  selectedQbit,  \* the id of the selected qubit, or Null
  elements,      \* the children of #listContainer: [id, selected, shown]
  thrown,        \* the error the last event handler ended with, or "none"
  event,         \* the last event handled
  applied        \* number of gate applications made (bounds the run)

uiVars == <<qbits, selectedQbit, elements, thrown, event, applied>>
vars == <<coreVars, uiVars>>

\* null.
Null == 0

NoEvent == [kind |-> "none", id |-> Null, gate |-> "none"]

\* The page before any event.
InitPage ==
  /\ qbits = <<>>
  /\ selectedQbit = Null
  /\ elements = <<>>
  /\ thrown = "none"
  /\ event = NoEvent
  /\ applied = 0

NoGate == Gate("none", 0)

\* The gate constants as the module defines them.
InitGates == gates = [n \in LibraryNames |-> Library(n)]

\* Clients that pass values: no object is tracked.
NoHeap == heap = <<>> /\ result = Null
Entry(op, g, ret) == [op |-> op, g |-> g, p |-> p, st |-> st, ret |-> ret]

\* A client of the coordinate-level operations.
InitCore ==
  /\ p0 \in CoordInputs
  /\ st0 = ket0
  /\ p = p0
  /\ st = st0
  /\ log = <<>>
  /\ InitGates
  /\ NoHeap
  /\ InitPage

\* A client of the state-level operations.
InitState ==
  /\ \/ p0 \in CoordInputs /\ st0 = ket0
     \/ p0 = Vector3(0, 0, SCALE) /\ st0 \in StateInputs
  /\ p = p0
  /\ st = st0
  /\ log = <<>>
  /\ InitGates
  /\ NoHeap
  /\ InitPage

\* A call returning a coordinate.
CoordCall(op, g, ret) ==
  /\ Len(log) < MaxCalls
  /\ log' = Append(log, Entry(op, g, ret))
  /\ p' = IF ret.err = "none" THEN ret.val ELSE p
  /\ UNCHANGED <<p0, st0, st, gates, heap, result, uiVars>>

\* A call returning a state.
StateCall(op, g, ret) ==
  /\ Len(log) < MaxCalls
  /\ log' = Append(log, Entry(op, g, ret))
  /\ st' = IF ret.err = "none" THEN ret.val ELSE st
  /\ UNCHANGED <<p0, st0, p, gates, heap, result, uiVars>>

CallApplyAndConvert ==
  \E g \in ConvertArgs : CoordCall("applyAndConvert", g, applyAndConvert(p, Matrix(g)))

CallExported ==
  \E g \in LibraryArgs : CoordCall("exported", g, Exported(g, p))

CallStateToBloch == CoordCall("stateToBloch", NoGate, stateToBloch(st))

CallBlochToState == StateCall("blochToState", NoGate, Return(blochToState(p)))

CallApplyGate ==
  \E g \in GateArgs : StateCall("applyGate", g, applyGate(Matrix(g), st))

\* normalize is called on the state register or on a vector the client
\* supplies; the log entry records the vector passed.
CallNormalize ==
  \E vec \in {st} \cup SmallStateInputs :
    /\ Len(log) < MaxCalls
    /\ log' = Append(log, [Entry("normalize", NoGate, Return(normalize(vec)))
                             EXCEPT !.st = vec])
    /\ st' = normalize(vec)
    /\ UNCHANGED <<p0, st0, p, gates, heap, result, uiVars>>

NextCore ==
  \/ CallApplyAndConvert
  \/ CallExported

NextState ==
  \/ CallStateToBloch
  \/ CallBlochToState
  \/ CallApplyGate
  \/ CallNormalize

\* A client of stateToBloch alone, with states of integer amplitudes
\* (re + i im, re and im in -AmpN..AmpN), on which the arithmetic is exact.
AmpN == 2
IntegerAmplitudes == { C(re * SCALE, im * SCALE) : re, im \in -AmpN..AmpN }
IntegerStates == { <<alpha, beta>> : alpha, beta \in IntegerAmplitudes }

InitBloch ==
  /\ p0 = Vector3(0, 0, SCALE)
  /\ st0 \in IntegerStates
  /\ p = p0
  /\ st = st0
  /\ log = <<>>
  /\ InitGates
  /\ NoHeap
  /\ InitPage

NextBloch == CallStateToBloch

SpecBloch == InitBloch /\ [][NextBloch]_vars

SpecCore == InitCore /\ [][NextCore]_vars
SpecState == InitState /\ [][NextState]_vars

Last == log[Len(log)]

---------------------------------------------------------------------------
(***************************************************************************)
(* The engine called with objects.  A JavaScript object or array is passed *)
(* and returned by reference: the heap holds every object by its           *)
(* reference, a call reads its arguments through their references, creates *)
(* the objects its code creates and returns a reference.  Objects no       *)
(* reference outlives the call (alphaConj, alphaBeta, the operands of add) *)
(* are left out.                                                           *)
(***************************************************************************)

\* A heap cell: an object { re, im } or { x, y, z } of numbers, or an array
\* of references.
Cell(kind, num, items) == [kind |-> kind, num |-> num, items |-> items]
NewC(c) == Cell("complex", <<c.re, c.im>>, <<>>)
NewVector3(v) == Cell("Vector3", <<v.x, v.y, v.z>>, <<>>)
NewArray(items) == Cell("array", <<>>, items)

\* The reference of the object created last on h.
Newest(h) == Len(h)

\* An array literal [C(..), C(..), ...] or vec.map(v => C(..)): the new
\* elements, then the new array.
AllocVec(h, vec) ==
  h \o [i \in 1..Len(vec) |-> NewC(vec[i])]
    \o <<NewArray([i \in 1..Len(vec) |-> Len(h) + i])>>

\* A matrix literal [[C(..), ...], ...]: the rows, then the array of rows.
RECURSIVE AllocRows(_, _, _, _)
AllocRows(h, rows, r, made) ==
  IF r > Len(rows) THEN Append(h, NewArray(made))
  ELSE LET h1 == AllocVec(h, rows[r])
       IN  AllocRows(h1, rows, r + 1, Append(made, Newest(h1)))
AllocMat(h, mat) == AllocRows(h, mat.rows, 1, <<>>)

\* Reading through a reference.
ComplexAt(h, a) == C(h[a].num[1], h[a].num[2])
Vector3At(h, a) == Vector3(h[a].num[1], h[a].num[2], h[a].num[3])
VecAt(h, a) == [i \in 1..Len(h[a].items) |-> ComplexAt(h, h[a].items[i])]
MatAt(h, a) == Mat([r \in 1..Len(h[a].items) |-> VecAt(h, h[a].items[r])])
ValueAt(h, a) == IF h[a].kind = "Vector3" THEN Vector3At(h, a) ELSE VecAt(h, a)

\* The outcome of a call on the heap: the heap it leaves and the reference
\* it returns, or the error it throws.
Done(h, ref) == [heap |-> h, ref |-> ref, err |-> "none"]
Failed(h, kind) == [heap |-> h, ref |-> Null, err |-> kind]

\* stateToBloch(state): reads state.length, state[0] and state[1], and
\* returns a new THREE.Vector3.
stateToBlochOnHeap(h, state) ==
  LET r == stateToBloch(VecAt(h, state))
  IN  IF r.err # "none" THEN Failed(h, r.err)
      ELSE Done(Append(h, NewVector3(r.val)), Len(h) + 1)

\* blochToState({ x, y, z }): the parameter is destructured into numbers;
\* both return statements build a new array of new complex numbers.
blochToStateOnHeap(h, cartesian) ==
  LET h1 == AllocVec(h, blochToState(Vector3At(h, cartesian)))
  IN  Done(h1, Newest(h1))

\* matrixVectorMultiply(mat, vec): out is a new array of new C(0, 0); each
\* acc is a new complex number, and out[r] = acc stores it in out.
matrixVectorMultiplyOnHeap(h, mat, vec) ==
  LET r == matrixVectorMultiply(MatAt(h, mat), VecAt(h, vec))
      rows == Len(h[mat].items)
      h1 == AllocVec(h, [i \in 1..rows |-> C(0, 0)])
      out == Newest(h1)
      h2 == h1 \o [i \in 1..rows |-> NewC(r.val[i])]
      h3 == [h2 EXCEPT ![out].items = [i \in 1..rows |-> Len(h1) + i]]
  IN  IF r.err # "none" THEN Failed(h, r.err) ELSE Done(h3, out)

\* normalize that scales the components of vec in place and returns vec.
normalizeOnHeap_InPlace(h, vec) ==
  LET v == normalize(VecAt(h, vec))
      items == h[vec].items
      IndexOf(a) == CHOOSE i \in 1..Len(items) : items[i] = a
  IN  Done([a \in 1..Len(h) |->
              IF \E i \in 1..Len(items) : items[i] = a
              THEN NewC(v[IndexOf(a)]) ELSE h[a]], vec)

\* normalize(vec): returns vec itself when the sum is below 1e-12, and
\* otherwise vec.map(v => scale(v, norm)), a new array of new complex numbers.
normalizeOnHeap(h, vec) ==
  LET v == VecAt(h, vec)
      h1 == AllocVec(h, normalize(v))
  IN  IF MaxAbsOf(v, 1) < Eps(6) THEN Done(h, vec) ELSE Done(h1, Newest(h1))

applyGateOnHeap(h, gateMatrix, stateVector) ==
  matrixVectorMultiplyOnHeap(h, gateMatrix, stateVector)

applyAndConvertOnHeap(h, cartesian, gateMatrix) ==
  LET state == blochToStateOnHeap(h, cartesian)
      newstate == applyGateOnHeap(state.heap, gateMatrix, state.ref)
  IN  IF newstate.err # "none" THEN newstate
      ELSE stateToBlochOnHeap(newstate.heap, newstate.ref)

\* The heap once the module is evaluated: ket0, ket1, ketPlus, ketMinus and
\* the gate constants, in the order of their definitions.  ketPlus and
\* ketMinus are the arrays normalize returned (vec.map); the array literals
\* passed to normalize are temporary.
GateOrder == <<"PAULI_X", "PAULI_Y", "PAULI_Z", "HADAMARD", "S_GATE", "T_GATE">>
RECURSIVE ModuleHeap(_)
ModuleHeap(k) ==
  IF k = 0
  THEN AllocVec(AllocVec(AllocVec(AllocVec(<<>>, ket0), ket1), ketPlus), ketMinus)
  ELSE AllocMat(ModuleHeap(k - 1), Library(GateOrder[k]))
Ket0Ref == Len(AllocVec(<<>>, ket0))
Ket1Ref == Ket0Ref + Len(ket1) + 1
KetPlusRef == Ket1Ref + Len(ketPlus) + 1
KetMinusRef == Len(ModuleHeap(0))
GateRefs ==
  [n \in LibraryNames |->
     Len(ModuleHeap(CHOOSE k \in 1..Len(GateOrder) : GateOrder[k] = n))]
GateRef(n) == GateRefs[n]

\* The objects of the client: a coordinate and a state, created after the
\* module's.
PRef == Len(ModuleHeap(Len(GateOrder))) + 1
StRef == PRef + Len(st0) + 1

\* Bounds and inputs of the client.
MaxPureCalls == 3
PureCoordInputs == { Vector3(SCALE, SCALE, 0), Vector3(0, 0, 0) }
PureStateInputs ==
  { <<C(SCALE, 0), C(SCALE, 0)>>, <<C(0, 0), C(0, 0)>>,
    <<C(SCALE, 0), C(0, 0), C(0, 0)>> }
PureGateNames == { "HADAMARD", "S_GATE" }

\* What the client writes into an object it was returned.
Scribble == -2 * SCALE

\* The registers show what the client's objects and the gate constants hold.
Registers(h) ==
  /\ p' = Vector3At(h, PRef)
  /\ st' = VecAt(h, StRef)
  /\ gates' = [n \in LibraryNames |-> MatAt(h, GateRef(n))]

InitPure ==
  /\ p0 \in PureCoordInputs
  /\ st0 \in PureStateInputs
  /\ p = p0
  /\ st = st0
  /\ log = <<>>
  /\ InitGates
  /\ heap = AllocVec(Append(ModuleHeap(Len(GateOrder)), NewVector3(p0)), st0)
  /\ result = Null
  /\ InitPage

\* A call on the client's objects p and st and on a gate constant: the
\* outcome is logged with the arguments as they were when the call was made.
PureCall(op, g, out) ==
  /\ Len(log) < MaxPureCalls
  /\ log' = Append(log, Entry(op, g, IF out.err # "none" THEN Throw(out.err)
                                     ELSE Return(ValueAt(out.heap, out.ref))))
  /\ heap' = out.heap
  /\ result' = out.ref
  /\ Registers(out.heap)
  /\ UNCHANGED <<p0, st0, uiVars>>

PureApplyAndConvert ==
  \E n \in PureGateNames :
    PureCall("applyAndConvert", Gate(n, 0),
             applyAndConvertOnHeap(heap, PRef, GateRef(n)))

PureBlochToState == PureCall("blochToState", NoGate, blochToStateOnHeap(heap, PRef))

PureStateToBloch == PureCall("stateToBloch", NoGate, stateToBlochOnHeap(heap, StRef))

PureApplyGate ==
  \E n \in PureGateNames :
    PureCall("applyGate", Gate(n, 0), applyGateOnHeap(heap, GateRef(n), StRef))

PureNormalize == PureCall("normalize", NoGate, normalizeOnHeap(heap, StRef))

\* The client writes into the object the last call returned, as
\* this.current.copy(...) does: result[0].re = result[0].im = Scribble for a
\* state, result.set(Scribble, Scribble, Scribble) for a coordinate.
ClientWrite ==
  /\ result # Null
  /\ heap' = IF heap[result].kind = "array"
             THEN [heap EXCEPT ![heap[result].items[1]].num = <<Scribble, Scribble>>]
             ELSE [heap EXCEPT ![result].num = <<Scribble, Scribble, Scribble>>]
  /\ result' = Null
  /\ Registers(heap')
  /\ UNCHANGED <<p0, st0, log, uiVars>>

NextPure ==
  \/ PureApplyAndConvert
  \/ PureBlochToState
  \/ PureStateToBloch
  \/ PureApplyGate
  \/ PureNormalize
  \/ ClientWrite

SpecPure == InitPure /\ [][NextPure]_vars

---------------------------------------------------------------------------
(***************************************************************************)
(* The page: the qubit registry of main.js and its event handlers.  Each   *)
(* action is one event handler run to completion; a handler that throws    *)
(* keeps the assignments it made before the throw.  The three.js scene     *)
(* (Qbit.group, drawVector, scene.remove) is rendering and is left out.    *)
(***************************************************************************)

\* Bounds of the page.
MaxQbits == 2     \* qubits added
MaxApplied == 2   \* gate applications made

\* getRandomIntInclusive(100000, 999999): the ends of the range stand for
\* the values drawn; two draws may give the same id.
MinId == 100000
MaxId == 999999
IdInputs == { MinId, MaxId }

\* Math.floor(Math.random() * 0xFFFFFF): no handler reads the colour, and
\* one value stands for all.
MaxColor == 16777214
ColorInputs == { MaxColor }

\* The value parseFloat returns for a text field: a number or NaN.
Num(v) == [nan |-> FALSE, v |-> v]
NaN == [nan |-> TRUE, v |-> 0]
isNaN(n) == n.nan

\* Vectors typed into vecX, vecY, vecZ.
EnteredVectors ==
  { <<Num(SCALE), Num(-2 * SCALE), Num(2 * SCALE)>>,
    <<Num(0), Num(0), Num(SCALE)>>,
    <<Num(0), Num(0), Num(0)>>,
    <<NaN, Num(SCALE), Num(SCALE)>> }

\* Degrees typed into phase-degrees.
DegreeInputs == { 90, 45 }

\* The exports of './math.js', the module main.js imports as QMath.
QMathExports ==
  { "stateToBloch", "blochToState", "ket0", "ket1", "ketPlus", "ketMinus",
    "PAULI_X", "PAULI_Y", "PAULI_Z", "HADAMARD", "applyAndConvert",
    "applyPauliX", "applyPauliY", "applyPauliZ", "applyHadamard" }

\* QMath.<name>: a name the module does not export is undefined.
QMath(name) == IF name \in QMathExports THEN Library(name) ELSE Undefined

\* The index of the first member of seq with this id, or Null.
FirstWithId(seq, id) ==
  IF \E i \in 1..Len(seq) : seq[i].id = id
  THEN CHOOSE i \in 1..Len(seq) :
         seq[i].id = id /\ \A j \in 1..(i - 1) : seq[j].id # id
  ELSE Null

getQbit(id) == FirstWithId(qbits, id)
getElementById(els, id) == FirstWithId(els, id)

RemoveAt(seq, k) ==
  [i \in 1..(Len(seq) - 1) |-> IF i < k THEN seq[i] ELSE seq[i + 1]]

\* Number.prototype.toFixed(2), in hundredths; the text of .coordinates.
toFixed2(v) == Rnd(v * 100, SCALE)
CoordinatesText(c) == <<toFixed2(c.x), toFixed2(c.y), toFixed2(c.z)>>

\* updateCoordinates(id, current) on the list els: the outcome holds the list.
updateCoordinates(els, id, c) ==
  LET k == getElementById(els, id)
  IN  IF k = Null THEN Throw(TypeError)
      ELSE Return([els EXCEPT ![k].shown = CoordinatesText(c)])

\* normalize(x, y, z) of main.js.
main_normalize(x, y, z) ==
  LET m == MaxAbs3(x, y, z)
  IN  IF m < Eps(8) THEN Vector3(0, 0, 0)
      ELSE LET fx == ToFull(x, m)
               fy == ToFull(y, m)
               fz == ToFull(z, m)
               length == ISqrt(fx * fx + fy * fy + fz * fz)
           IN  Vector3(FDiv(fx, length), FDiv(fy, length), FDiv(fz, length))

Qbit(id, initial, current, color) ==
  [id |-> id, initial |-> initial, current |-> current, color |-> color]

createElement(color, x, y, z, id) ==
  [id |-> id, selected |-> FALSE, shown |-> CoordinatesText(Vector3(x, y, z))]

Handled(kind, id, gate) == [kind |-> kind, id |-> id, gate |-> gate]

\* addBtn click with v in the text fields: validation, then the draws of
\* randColor and randomID, createElement, appendChild, addNewQbit.
AddVector(v, randColor, randomID) ==
  /\ Len(qbits) < MaxQbits
  /\ IF isNaN(v[1]) \/ isNaN(v[2]) \/ isNaN(v[3])
     THEN /\ event' = Handled("add", Null, "none")
          /\ thrown' = "none"
          /\ UNCHANGED <<qbits, elements>>
     ELSE IF v[1].v = 0 \/ v[2].v = 0 \/ v[3].v = 0
     THEN /\ event' = Handled("add", Null, "none")
          /\ thrown' = "none"
          /\ UNCHANGED <<qbits, elements>>
     ELSE LET normalized == main_normalize(v[1].v, v[2].v, v[3].v)
              newElement == createElement(randColor, normalized.x, normalized.y,
                                          normalized.z, randomID)
              appended == Append(elements, newElement)
              newqbit == Qbit(randomID, normalized, normalized, randColor)
              refreshed == updateCoordinates(appended, randomID, newqbit.current)
          IN  /\ event' = Handled("add", randomID, "none")
              /\ IF refreshed.err # "none"
                 THEN /\ thrown' = refreshed.err
                      /\ elements' = appended
                      /\ UNCHANGED qbits
                 ELSE /\ thrown' = "none"
                      /\ elements' = refreshed.val
                      /\ qbits' = Append(qbits, newqbit)
  /\ UNCHANGED <<selectedQbit, applied, coreVars>>

AddBtnClick ==
  \E v \in EnteredVectors, randColor \in ColorInputs, randomID \in IdInputs :
    AddVector(v, randColor, randomID)

\* click on the k-th list element: selectQbit(id).
SelectElement(k) ==
  LET id == elements[k].id
      previous == getElementById(elements, selectedQbit)
      cleared == IF selectedQbit = Null THEN elements
                 ELSE [elements EXCEPT ![previous].selected = FALSE]
      chosen == getElementById(cleared, id)
  IN  /\ event' = Handled("select", id, "none")
      /\ IF selectedQbit # Null /\ previous = Null
         THEN thrown' = TypeError /\ UNCHANGED <<selectedQbit, elements>>
         ELSE /\ thrown' = "none"
              /\ selectedQbit' = id
              /\ elements' = [cleared EXCEPT ![chosen].selected = TRUE]
      /\ UNCHANGED <<qbits, applied, coreVars>>

WrapperClick == \E k \in 1..Len(elements) : SelectElement(k)

\* applyGate(gate) on a qubit whose initial and current are one vector object,
\* written in place: the result lands in both.
main_applyGate_SharedVector(gate, ev) ==
  LET i == getQbit(selectedQbit)
      r == applyAndConvert(qbits[i].current, gate)
      refreshed == updateCoordinates(elements, qbits[i].id, r.val)
  IN  /\ event' = ev
      /\ IF selectedQbit = Null
         THEN thrown' = "none" /\ UNCHANGED <<qbits, elements, applied>>
         ELSE IF i = Null
         THEN thrown' = TypeError /\ UNCHANGED <<qbits, elements, applied>>
         ELSE IF r.err # "none"
         THEN thrown' = r.err /\ UNCHANGED <<qbits, elements, applied>>
         ELSE /\ qbits' = [qbits EXCEPT ![i].current = r.val,
                                        ![i].initial = r.val]
              /\ applied' = applied + 1
              /\ IF refreshed.err # "none"
                 THEN thrown' = refreshed.err /\ UNCHANGED elements
                 ELSE thrown' = "none" /\ elements' = refreshed.val
      /\ UNCHANGED <<selectedQbit, coreVars>>

\* applyGate(gate) of main.js, for the handler that reports ev.
main_applyGate(gate, ev) ==
  LET i == getQbit(selectedQbit)
      r == applyAndConvert(qbits[i].current, gate)
      refreshed == updateCoordinates(elements, qbits[i].id, r.val)
  IN  /\ event' = ev
      /\ IF selectedQbit = Null
         THEN thrown' = "none" /\ UNCHANGED <<qbits, elements, applied>>
         ELSE IF i = Null
         THEN thrown' = TypeError /\ UNCHANGED <<qbits, elements, applied>>
         ELSE IF r.err # "none"
         THEN thrown' = r.err /\ UNCHANGED <<qbits, elements, applied>>
         ELSE /\ qbits' = [qbits EXCEPT ![i].current = r.val]
              /\ applied' = applied + 1
              /\ IF refreshed.err # "none"
                 THEN thrown' = refreshed.err /\ UNCHANGED elements
                 ELSE thrown' = "none" /\ elements' = refreshed.val
      /\ UNCHANGED <<selectedQbit, coreVars>>

\* x-, y-, z-, h- and s-gate-btn click: applyGate(QMath.<gate>).
GateBtnClick ==
  \E name \in { "PAULI_X", "PAULI_Y", "PAULI_Z", "HADAMARD", "S_GATE" } :
    /\ applied < MaxApplied
    /\ main_applyGate(QMath(name), Handled("gate", selectedQbit, name))

\* ph-gate-btn click: applyGate(QMath.PHASE_GATE(degree / 180.0 * Math.PI)).
PhBtnClick ==
  \E degree \in DegreeInputs :
    /\ applied < MaxApplied
    /\ IF "PHASE_GATE" \in QMathExports
       THEN main_applyGate(PHASE_GATE(FMul(Rnd(degree * SCALE, 180), PI)),
                           Handled("gate", selectedQbit, "PHASE_GATE"))
       ELSE /\ event' = Handled("gate", selectedQbit, "PHASE_GATE")
            /\ thrown' = TypeError
            /\ UNCHANGED <<qbits, selectedQbit, elements, applied, coreVars>>

\* A reset that redraws the qubit and leaves its current coordinate alone.
ResetBtnClick_RefreshOnly ==
  \E k \in 1..Len(elements) :
    LET id == elements[k].id
        i == getQbit(id)
        refreshed == updateCoordinates(elements, id, qbits[i].current)
    IN  /\ event' = Handled("reset", id, "none")
        /\ IF i = Null
           THEN thrown' = TypeError /\ UNCHANGED <<qbits, elements>>
           ELSE /\ UNCHANGED qbits
                /\ IF refreshed.err # "none"
                   THEN thrown' = refreshed.err /\ UNCHANGED elements
                   ELSE thrown' = "none" /\ elements' = refreshed.val
        /\ UNCHANGED <<selectedQbit, applied, coreVars>>

\* reset-btn click in the k-th list element: reset(id).
ResetElement(k) ==
  LET id == elements[k].id
      i == getQbit(id)
      refreshed == updateCoordinates(elements, id, qbits[i].initial)
  IN  /\ event' = Handled("reset", id, "none")
      /\ IF i = Null
         THEN thrown' = TypeError /\ UNCHANGED <<qbits, elements>>
         ELSE /\ qbits' = [qbits EXCEPT ![i].current = qbits[i].initial]
              /\ IF refreshed.err # "none"
                 THEN thrown' = refreshed.err /\ UNCHANGED elements
                 ELSE thrown' = "none" /\ elements' = refreshed.val
      /\ UNCHANGED <<selectedQbit, applied, coreVars>>

ResetBtnClick == \E k \in 1..Len(elements) : ResetElement(k)

\* A delete that removes the element and the qubit and leaves selectedQbit alone.
DeleteElement_KeepSelection(k) ==
  LET id == elements[k].id
      i == getQbit(id)
  IN  /\ event' = Handled("delete", id, "none")
      /\ elements' = RemoveAt(elements, k)
      /\ IF i = Null
         THEN /\ qbits' = IF Len(qbits) = 0 THEN qbits
                          ELSE RemoveAt(qbits, Len(qbits))
              /\ thrown' = TypeError
         ELSE /\ qbits' = RemoveAt(qbits, i)
              /\ thrown' = "none"
      /\ UNCHANGED <<selectedQbit, applied, coreVars>>

\* delete-btn click in the k-th list element: wrapper.remove(), deleteQbit(id).
DeleteElement(k) ==
  LET id == elements[k].id
      i == getQbit(id)
  IN  /\ event' = Handled("delete", id, "none")
      /\ elements' = RemoveAt(elements, k)
      /\ IF i = Null
         THEN \* indexOf(null) is -1 and splice(-1, 1) removes the last qubit
              /\ qbits' = IF Len(qbits) = 0 THEN qbits
                          ELSE RemoveAt(qbits, Len(qbits))
              /\ thrown' = TypeError
              /\ UNCHANGED selectedQbit
         ELSE /\ qbits' = RemoveAt(qbits, i)
              /\ thrown' = "none"
              /\ selectedQbit' = Null
      /\ UNCHANGED <<applied, coreVars>>

DeleteBtnClick == \E k \in 1..Len(elements) : DeleteElement(k)

Init ==
  /\ p0 = Vector3(0, 0, SCALE)
  /\ st0 = ket0
  /\ p = p0
  /\ st = st0
  /\ log = <<>>
  /\ InitGates
  /\ NoHeap
  /\ InitPage

Next ==
  \/ AddBtnClick
  \/ WrapperClick
  \/ GateBtnClick
  \/ PhBtnClick
  \/ ResetBtnClick
  \/ DeleteBtnClick

Spec == Init /\ [][Next]_vars

---------------------------------------------------------------------------
\* Logged calls.
IsCall(i, op) == i \in 1..Len(log) /\ log[i].op = op
Returned(i) == log[i].ret.err = "none"
North == Vector3(0, 0, SCALE)
South == Vector3(0, 0, -SCALE)
PlusX == Vector3(SCALE, 0, 0)
MinusX == Vector3(-SCALE, 0, 0)

\* applyAndConvert was called with the same gate G at calls i and i + 1, the
\* second call on the coordinate the first returned.
TwiceInSuccession(i) ==
  /\ IsCall(i, "applyAndConvert")
  /\ IsCall(i + 1, "applyAndConvert")
  /\ log[i].g = log[i + 1].g
  /\ log[i].g.name \in { "PAULI_X", "PAULI_Y", "PAULI_Z", "HADAMARD" }
  /\ Returned(i)

\* C1 as stated: for ANY coordinate p and each G of PAULI_X, PAULI_Y, PAULI_Z,
\* HADAMARD, applyAndConvert(applyAndConvert(p, G), G) is p within tolerance.
C1_InvolutionAnyCoordinate ==
  \A i \in 1..Len(log) :
    TwiceInSuccession(i) => Returned(i + 1) /\ Close(log[i + 1].ret.val, log[i].p)

\* C1 amended: for any coordinate p of unit length and each G of PAULI_X,
\* PAULI_Y, PAULI_Z, HADAMARD, applying G twice in succession returns p within
\* tolerance.
C1_InvolutionOnUnitSphere ==
  \A i \in 1..Len(log) :
    (TwiceInSuccession(i) /\ IsUnit(log[i].p))
      => Returned(i + 1) /\ Close(log[i + 1].ret.val, log[i].p)

\* C1 witness: Hadamard applied twice to a unit coordinate that the first
\* application moved away and the second brought back.
C1_Witness ==
  /\ Len(log) = 2
  /\ TwiceInSuccession(1)
  /\ log[1].g.name = "HADAMARD"
  /\ IsUnit(p0)
  /\ ~Close(log[1].ret.val, p0)
  /\ Close(p, p0)

\* C2: norm preservation: for every library gate and every unit-norm input
\* coordinate, applyAndConvert returns a coordinate of squared length 1 within
\* tolerance; so after any sequence of library-gate applications that starts
\* on the unit sphere the current coordinate is on the unit sphere.
C2_NormPreserved ==
  /\ \A i \in 1..Len(log) :
       (IsCall(i, "applyAndConvert") /\ log[i].g \in LibraryArgs /\ IsUnit(log[i].p))
         => Returned(i) /\ IsUnit(log[i].ret.val)
  /\ (IsUnit(p0) /\ \A i \in 1..Len(log) :
                      IsCall(i, "applyAndConvert") /\ log[i].g \in LibraryArgs)
       => IsUnit(p)

\* C2 witness: a sequence of library gates, ending with the phase gate, that
\* moved a unit coordinate at every step.
C2_Witness ==
  /\ Len(log) = MaxCalls
  /\ IsUnit(p0)
  /\ \A i \in 1..Len(log) :
       /\ IsCall(i, "applyAndConvert")
       /\ log[i].g \in LibraryArgs
       /\ ~Close(log[i].ret.val, log[i].p)
  /\ Last.g.name = "PHASE_GATE"
  /\ IsUnit(p)

\* C3: round trip: for any unit Bloch coordinate (x, y, z),
\* stateToBloch(blochToState({x, y, z})) is (x, y, z) within tolerance.
C3_RoundTrip ==
  \A i \in 1..Len(log) :
    (IsCall(i, "blochToState") /\ IsCall(i + 1, "stateToBloch") /\ IsUnit(log[i].p))
      => Returned(i + 1) /\ Close(log[i + 1].ret.val, log[i].p)

\* C3 witness: the round trip of a unit coordinate with three non-zero
\* components, through a state other than the one the client started with.
C3_Witness ==
  /\ Len(log) = 2
  /\ IsCall(1, "blochToState")
  /\ IsCall(2, "stateToBloch")
  /\ IsUnit(p0)
  /\ p0.x # 0 /\ p0.y # 0 /\ p0.z # 0
  /\ log[2].st # st0
  /\ Close(p, p0)

\* The matrix of a logged call, and the state it was applied to by
\* applyAndConvert.
MatrixOf(i) == Matrix(log[i].g)
Is2x2(m) ==
  /\ m.tag = "rows"
  /\ Len(m.rows) = 2
  /\ Len(m.rows[1]) = 2
  /\ Len(m.rows[2]) = 2
NearZero(vec) == MaxAbsOf(vec, 1) < Eps(6)
Applied(i) == applyGate(MatrixOf(i), blochToState(log[i].p))
ByGate(i) == IsCall(i, "applyAndConvert") \/ IsCall(i, "exported")

\* C4 as stated: for every coordinate p and every 2x2 complex matrix M, unitary
\* or not, whose product with the state is not near zero, applyAndConvert(p, M)
\* is stateToBloch(normalize(applyGate(M, blochToState(p)))) and lies on the
\* unit sphere.
C4_ApplyAndConvertRenormalizes ==
  \A i \in 1..Len(log) :
    (IsCall(i, "applyAndConvert") /\ Is2x2(MatrixOf(i)) /\ ~NearZero(Applied(i).val))
      => /\ Returned(i)
         /\ Close(log[i].ret.val, stateToBloch(normalize(Applied(i).val)).val)
         /\ IsUnit(log[i].ret.val)

\* C5: known fixed points and flips: Pauli-Z on (1,0,0) gives (-1,0,0),
\* Pauli-Z on (0,0,1) gives (0,0,1), Pauli-X on (0,0,1) gives (0,0,-1), within
\* tolerance, through applyAndConvert and through applyPauliZ / applyPauliX.
C5_KnownPoints ==
  \A i \in 1..Len(log) :
    ByGate(i) =>
      /\ (log[i].g.name = "PAULI_Z" /\ log[i].p = PlusX)
           => Returned(i) /\ Close(log[i].ret.val, MinusX)
      /\ (log[i].g.name = "PAULI_Z" /\ log[i].p = North)
           => Returned(i) /\ Close(log[i].ret.val, North)
      /\ (log[i].g.name = "PAULI_X" /\ log[i].p = North)
           => Returned(i) /\ Close(log[i].ret.val, South)

\* C5 witness: the case of runTest: applyPauliZ took (1,0,0) to (-1,0,0).
C5_Witness ==
  /\ Len(log) = 1
  /\ IsCall(1, "exported")
  /\ log[1].g.name = "PAULI_Z"
  /\ p0 = PlusX
  /\ Close(p, MinusX)
  /\ ~Close(p, p0)

\* C6: Hadamard on (0,0,1) gives (1,0,0) within tolerance, through
\* applyAndConvert(p, HADAMARD) and through applyHadamard(p).
C6_HadamardOnNorth ==
  \A i \in 1..Len(log) :
    (ByGate(i) /\ log[i].g.name = "HADAMARD" /\ log[i].p = North)
      => Returned(i) /\ Close(log[i].ret.val, PlusX)

\* C6 witness: (0,0,1) taken to (1,0,0) by applyHadamard.
C6_Witness ==
  /\ Len(log) = 1
  /\ IsCall(1, "exported")
  /\ log[1].g.name = "HADAMARD"
  /\ p0 = North
  /\ Close(p, PlusX)

\* The same operation as call i, with another library gate.
SameCallWith(i, name) ==
  IF IsCall(i, "exported") THEN Exported(Gate(name, 0), log[i].p)
  ELSE applyAndConvert(log[i].p, Library(name))

CloseC(a, b) == Abs(a.re - b.re) <= Tol /\ Abs(a.im - b.im) <= Tol

\* C7: phase gate generality: for any coordinate p, PHASE_GATE(pi/2) gives the
\* coordinate S_GATE gives and PHASE_GATE(pi/4) the coordinate T_GATE gives,
\* within tolerance; the phase entry of S_GATE and of T_GATE is the entry
\* cos(theta) + i sin(theta) of PHASE_GATE at their angle.
C7_PhaseGateGenerality ==
  /\ \A i \in 1..Len(log) :
       (ByGate(i) /\ log[i].g.name = "PHASE_GATE") =>
         /\ log[i].g.theta = Rnd(PI, 2)
              => Returned(i) /\ Close(log[i].ret.val, SameCallWith(i, "S_GATE").val)
         /\ log[i].g.theta = Rnd(PI, 4)
              => Returned(i) /\ Close(log[i].ret.val, SameCallWith(i, "T_GATE").val)
  /\ CloseC(S_GATE.rows[2][2], PHASE_GATE(Rnd(PI, 2)).rows[2][2])
  /\ CloseC(T_GATE.rows[2][2], PHASE_GATE(Rnd(PI, 4)).rows[2][2])
  /\ S_GATE.rows[1] = PHASE_GATE(Rnd(PI, 2)).rows[1]
  /\ T_GATE.rows[1] = PHASE_GATE(Rnd(PI, 4)).rows[1]

\* C7 witness: PHASE_GATE(pi/2) moved a coordinate to where S_GATE moves it.
C7_Witness ==
  /\ Len(log) = 1
  /\ IsCall(1, "applyAndConvert")
  /\ log[1].g = Gate("PHASE_GATE", Rnd(PI, 2))
  /\ ~Close(p, p0)
  /\ Close(p, applyAndConvert(p0, S_GATE).val)

\* A coordinate of norm below 1e-9.
Degenerate(q) == MaxAbs3(q.x, q.y, q.z) < Eps(9)

\* C8: degenerate input: for a coordinate of norm below 1e-9 blochToState
\* returns the default state [(1,0),(0,0)] and raises nothing, and every
\* library gate applied to such a coordinate returns a coordinate: the one it
\* returns for (0,0,1), on the unit sphere.
C8_DegenerateInput ==
  \A i \in 1..Len(log) :
    (IsCall(i, "blochToState") /\ Degenerate(log[i].p)) =>
      /\ Returned(i)
      /\ log[i].ret.val = <<C(SCALE, 0), C(0, 0)>>
      /\ \A g \in LibraryArgs :
           LET r == applyAndConvert(log[i].p, Matrix(g))
           IN  /\ r.err = "none"
               /\ r.val = applyAndConvert(North, Matrix(g)).val
               /\ IsUnit(r.val)

\* C8 witness: blochToState of the origin replaced another state in the state
\* register by the default state.
C8_Witness ==
  /\ Len(log) = 2
  /\ IsCall(2, "blochToState")
  /\ log[2].p = Vector3(0, 0, 0)
  /\ log[2].st # <<C(SCALE, 0), C(0, 0)>>
  /\ st = <<C(SCALE, 0), C(0, 0)>>

\* A matrix with a first row: its column count is the length of that row.
HasColumns(m) == m.tag = "rows" /\ Len(m.rows) > 0
Columns(m) == Len(m.rows[1])

\* C9: dimension errors: stateToBloch fails with InvalidDimension for every
\* state whose length is not 2, and applyGate fails with DimensionMismatch
\* whenever the column count of the matrix differs from the length of the
\* state; a failed call returns no result (the registers keep their values).
C9_DimensionErrors ==
  /\ \A i \in 1..Len(log) :
       /\ (IsCall(i, "stateToBloch") /\ Len(log[i].st) # 2)
            => log[i].ret.err = InvalidDimension
       /\ (IsCall(i, "applyGate") /\ HasColumns(MatrixOf(i))
             /\ Columns(MatrixOf(i)) # Len(log[i].st))
            => log[i].ret.err = DimensionMismatch
  /\ (Len(log) > 0 /\ Last.ret.err # "none") => (p = Last.p /\ st = Last.st)

\* C9 witness: a 2x2 gate refused for a state of three amplitudes, and then
\* stateToBloch refused for the same state.
C9_Witness ==
  /\ Len(log) = 2
  /\ IsCall(1, "applyGate")
  /\ log[1].g.name = "PAULI_X"
  /\ log[1].ret.err = DimensionMismatch
  /\ IsCall(2, "stateToBloch")
  /\ Len(log[2].st) = 3
  /\ log[2].ret.err = InvalidDimension
  /\ st = st0

\* The failure kinds the specification names, and normal return.
SpecifiedOutcomes == { "none", InvalidDimension, DimensionMismatch }

\* C10: the error taxonomy is closed: every call of a core operation, and
\* every gate button handler, either returns or fails with InvalidDimension
\* or DimensionMismatch, and with no other kind of failure.
C10_ClosedErrorTaxonomy ==
  /\ \A i \in 1..Len(log) : log[i].ret.err \in SpecifiedOutcomes
  /\ event.kind = "gate" => thrown \in SpecifiedOutcomes

\* Two states agree amplitude by amplitude within tolerance.
CloseState(u, v) ==
  /\ Len(u) = Len(v)
  /\ \A k \in 1..Len(u) : CloseC(u[k], v[k])

\* The sum of the squared parts of vec[i..], in squared resolution steps.
RECURSIVE SumSquares(_, _)
SumSquares(vec, i) ==
  IF i > Len(vec) THEN 0
  ELSE vec[i].re * vec[i].re + vec[i].im * vec[i].im + SumSquares(vec, i + 1)

\* C11: normalize(vector) never fails; a vector whose squared magnitudes sum
\* to less than 1e-12 (among the representable vectors: to 0) is returned
\* unchanged; any other vector is returned with every component divided by
\* sqrt(sum), so that the squared magnitudes of the result sum to 1;
\* normalizing the result again returns it unchanged.
C11_Normalize ==
  \A i \in 1..Len(log) :
    IsCall(i, "normalize") =>
      LET v == log[i].st
          r == log[i].ret
          sum == SumSquares(v, 1)
          m == MaxAbsOf(v, 1)
          full == [k \in 1..Len(v) |-> C(ToFull(v[k].re, m), ToFull(v[k].im, m))]
          root == ISqrt(SumSquares(full, 1))
      IN  /\ Returned(i)
          /\ sum = 0 => r.val = v
          /\ sum > 0 =>
               /\ Len(r.val) = Len(v)
               /\ Abs(SumAbs2(r.val, 1) - SCALE) <= Tol
               /\ \A k \in 1..Len(v) :
                    CloseC(r.val[k], C(FDiv(full[k].re, root), FDiv(full[k].im, root)))
          /\ (i > 1 /\ IsCall(i - 1, "normalize") /\ v = log[i - 1].ret.val) =>
               CloseState(r.val, v)

\* normalize has been called twice in succession on (1, 1).
C11_Witness ==
  /\ Len(log) = 2
  /\ IsCall(1, "normalize")
  /\ IsCall(2, "normalize")
  /\ log[1].st = <<C(SCALE, 0), C(SCALE, 0)>>
  /\ log[1].ret.val # log[1].st
  /\ CloseState(st, <<C(H, 0), C(H, 0)>>)

\* A gate button has just been handled while a qubit of the registry was selected.
GateActionOnSelected ==
  /\ event'.kind = "gate"
  /\ selectedQbit # Null
  /\ getQbit(selectedQbit) # Null

\* The gates a button stands for in the gate library of the engine: the
\* constant of that name, or PHASE_GATE(theta) for an angle typed in degrees.
ButtonGates(name) ==
  IF name = "PHASE_GATE"
  THEN { PHASE_GATE(FMul(Rnd(degree * SCALE, 180), PI)) : degree \in DegreeInputs }
  ELSE { Library(name) }

\* C12: when a qubit is selected, a gate action replaces the current
\* coordinate of that qubit with applyAndConvert(its previous current
\* coordinate, gate), for the gate of the button clicked (X, Y, Z, H, S or
\* the phase gate), and changes nothing else of the registry: id, initial
\* coordinate and colour of the qubit stay, as does every other qubit.
C12_ApplyGateContract ==
  [][ GateActionOnSelected =>
        LET i == getQbit(selectedQbit)
        IN  \E gate \in ButtonGates(event'.gate) :
              qbits' = [qbits EXCEPT
                          ![i].current = applyAndConvert(qbits[i].current, gate).val] ]_vars

\* The coordinate every qubit of this model is created with: the entered
\* vector (1, -2, 2), normalized.
CreatedWith == main_normalize(SCALE, -2 * SCALE, 2 * SCALE)

\* C13: reset(id) never fails and makes the current coordinate of the qubit
\* with that id equal to its initial coordinate, the normalized vector it was
\* created with, whatever gates were applied before, and changes nothing else
\* of the registry; a second reset of the same qubit changes nothing.  When
\* two qubits share the id, gates and reset both act on the first of them, so
\* after reset(id) every qubit with that id is at its initial coordinate.
C13_ResetContract ==
  [][ event'.kind = "reset" =>
        LET i == getQbit(event'.id)
        IN  /\ i # Null
            /\ thrown' = "none"
            /\ qbits' = [qbits EXCEPT ![i].current = qbits[i].initial]
            /\ qbits'[i].current = CreatedWith
            /\ \A j \in 1..Len(qbits') :
                 qbits'[j].id = event'.id => qbits'[j].current = qbits'[j].initial
            /\ (event.kind = "reset" /\ event.id = event'.id) => qbits' = qbits ]_vars

\* After two gate applications the only qubit has been reset: it is back at
\* the coordinate it was created with, and its list element shows it.
C13_Witness ==
  /\ event.kind = "reset"
  /\ applied = 2
  /\ Len(qbits) = 1
  /\ selectedQbit = qbits[1].id
  /\ event.id = qbits[1].id
  /\ qbits[1].current = qbits[1].initial
  /\ qbits[1].current = CreatedWith
  /\ elements[1].shown = CoordinatesText(CreatedWith)

\* The k-th list element and the k-th qubit are created by the same add
\* action; the two lists line up, element by element and id by id.
Paired ==
  /\ Len(elements) = Len(qbits)
  /\ \A k \in 1..Len(elements) : elements[k].id = qbits[k].id

\* C14: qubit instances are independent: a reset clicked in the list element
\* of one qubit changes no other qubit of the registry, and a gate changes no
\* qubit with an id other than the selected one, in every registry the add
\* action can build.
C14_Independence ==
  [][ /\ \A k \in 1..Len(elements) :
           (Paired /\ ResetElement(k)) =>
             \A j \in 1..Len(qbits) : j # k => qbits'[j] = qbits[j]
      /\ event'.kind = "gate" =>
           /\ Len(qbits') = Len(qbits)
           /\ \A j \in 1..Len(qbits) :
                qbits[j].id # selectedQbit => qbits'[j] = qbits[j] ]_vars

\* A call of the engine has just been made.
CallMade == Len(log') = Len(log) + 1

\* C15: the core is stateless and pure: no call changes an object that
\* existed before it, so the coordinate, the state and the gate matrix passed
\* are after the call as they were before; the exported constants keep the
\* values the module gave them, whatever the client does with the objects it
\* is returned; and two calls of the same operation with equal arguments have
\* equal outcomes, whatever was called or written in between.
C15_StatelessAndPure ==
  /\ [](/\ gates = [n \in LibraryNames |-> Library(n)]
        /\ VecAt(heap, Ket0Ref) = ket0
        /\ VecAt(heap, Ket1Ref) = ket1
        /\ VecAt(heap, KetPlusRef) = ketPlus
        /\ VecAt(heap, KetMinusRef) = ketMinus
        /\ \A i, j \in 1..Len(log) :
             (/\ log[i].op = log[j].op
              /\ log[i].g = log[j].g
              /\ log[i].p = log[j].p
              /\ log[i].st = log[j].st) => log[i].ret = log[j].ret)
  /\ [][ CallMade =>
           /\ \A a \in 1..Len(heap) : heap'[a] = heap[a]
           /\ p' = p /\ st' = st /\ gates' = gates ]_vars

\* normalize on the state (1, 1), the client's write into the state returned,
\* applyGate with HADAMARD, and normalize again: both calls of normalize
\* returned the same normalized state, in two objects, and the client's state
\* is still (1, 1).
C15_Witness ==
  /\ Len(log) = 3
  /\ IsCall(1, "normalize")
  /\ IsCall(2, "applyGate")
  /\ log[2].g.name = "HADAMARD"
  /\ Returned(2)
  /\ IsCall(3, "normalize")
  /\ st0 = <<C(SCALE, 0), C(SCALE, 0)>>
  /\ st = st0
  /\ log[3].st = st0
  /\ log[3].ret = log[1].ret
  /\ log[3].ret.val # st0
  /\ result # Null
  /\ VecAt(heap, result) = log[3].ret.val
  /\ \E a \in 1..Len(heap) : heap[a].num = <<Scribble, Scribble>>

\* Factors k > 0, as fractions <<numerator, denominator>>, and k * q.  The
\* last factor takes every input coordinate below the threshold of
\* blochToState.
TinyFactor == <<1, 10 * SCALE>>
ScaleFactors == { <<1, 2>>, <<3, 2>>, <<2, 1>>, TinyFactor }
Scaled(q, k) == Vector3(Rnd(q.x * k[1], k[2]), Rnd(q.y * k[1], k[2]), Rnd(q.z * k[1], k[2]))

\* q / |q|.
UnitOf(q) ==
  LET m == MaxAbs3(q.x, q.y, q.z)
      x == ToFull(q.x, m)
      y == ToFull(q.y, m)
      z == ToFull(q.z, m)
      norm == ISqrt(x * x + y * y + z * z)
  IN  Vector3(FDiv(x, norm), FDiv(y, norm), FDiv(z, norm))

\* C16 as stated: a coordinate off the unit sphere is accepted and normalized
\* on conversion: for a coordinate q that is not degenerate, blochToState(k * q)
\* is blochToState(q) for EVERY factor k > 0, and stateToBloch of that state
\* is the unit vector q / |q|, within tolerance.
C16_EveryFactor ==
  \A i \in 1..Len(log) :
    (IsCall(i, "blochToState") /\ ~Degenerate(log[i].p)) =>
      /\ Returned(i)
      /\ \A k \in ScaleFactors :
           CloseState(blochToState(Scaled(log[i].p, k)), log[i].ret.val)
      /\ IsCall(i + 1, "stateToBloch") =>
           /\ Returned(i + 1)
           /\ Close(log[i + 1].ret.val, UnitOf(log[i].p))

\* C16 amended: for a coordinate q that is not degenerate and every factor
\* k > 0 for which k * q is not degenerate either, blochToState(k * q) is
\* blochToState(q); when k * q is degenerate, blochToState(k * q) is the
\* default state; and stateToBloch(blochToState(q)) is the unit vector
\* q / |q|, within tolerance.
C16_OffSphereNormalized ==
  \A i \in 1..Len(log) :
    (IsCall(i, "blochToState") /\ ~Degenerate(log[i].p)) =>
      /\ Returned(i)
      /\ \A k \in ScaleFactors :
           IF Degenerate(Scaled(log[i].p, k))
           THEN blochToState(Scaled(log[i].p, k)) = DefaultState
           ELSE CloseState(blochToState(Scaled(log[i].p, k)), log[i].ret.val)
      /\ IsCall(i + 1, "stateToBloch") =>
           /\ Returned(i + 1)
           /\ Close(log[i + 1].ret.val, UnitOf(log[i].p))

\* (0.5, -1, 1), of length 1.5, has been converted to a state and back: the
\* coordinate returned is (1/3, -2/3, 2/3).
C16_Witness ==
  /\ Len(log) = 2
  /\ IsCall(1, "blochToState")
  /\ IsCall(2, "stateToBloch")
  /\ p0 = Vector3(SCALE \div 2, -SCALE, SCALE)
  /\ ~IsUnit(p0)
  /\ IsUnit(p)
  /\ Close(p, Vector3(SCALE \div 3, -((2 * SCALE) \div 3), (2 * SCALE) \div 3))

\* The integer n of the number n * SCALE.
Units(v) == v \div SCALE

\* C17: for a state (alpha, beta) of two amplitudes, stateToBloch returns
\* x = 2 Re(p), y = 2 Im(p), z = |alpha|^2 - |beta|^2 with
\* p = conj(alpha) * beta, that is, for alpha = a + i b and beta = c + i d,
\* x = 2 (a c + b d), y = 2 (a d - b c), z = a^2 + b^2 - c^2 - d^2, exactly
\* on integer amplitudes.
C17_StateToBlochFormula ==
  \A i \in 1..Len(log) :
    (IsCall(i, "stateToBloch") /\ Len(log[i].st) = 2) =>
      LET a == Units(log[i].st[1].re)
          b == Units(log[i].st[1].im)
          c == Units(log[i].st[2].re)
          d == Units(log[i].st[2].im)
      IN  /\ Returned(i)
          /\ log[i].ret.val.x = 2 * (a * c + b * d) * SCALE
          /\ log[i].ret.val.y = 2 * (a * d - b * c) * SCALE
          /\ log[i].ret.val.z = (a * a + b * b - c * c - d * d) * SCALE

\* stateToBloch has been called on (1 + i, 2): conj(alpha) * beta = 2 - 2i,
\* and the coordinate returned is (4, -4, -2).
C17_Witness ==
  /\ Len(log) = 1
  /\ IsCall(1, "stateToBloch")
  /\ st0 = <<C(SCALE, SCALE), C(2 * SCALE, 0)>>
  /\ p = Vector3(4 * SCALE, -4 * SCALE, -2 * SCALE)

\* C18: deleting a qubit destroys exactly that qubit: after the delete button
\* of the k-th list element the registry is the old registry without its k-th
\* qubit, the qubit created with that element; the other qubits are all
\* there, in the same order, with the same initial and current coordinates.
C18_DeleteExactlyThatQubit ==
  [][ \A k \in 1..Len(elements) :
        (Paired /\ DeleteElement(k)) => qbits' = RemoveAt(qbits, k) ]_vars

\* An entered vector with a component that is not a number; the null vector.
HasNaN(v) == isNaN(v[1]) \/ isNaN(v[2]) \/ isNaN(v[3])
IsNullVector(v) == v[1].v = 0 /\ v[2].v = 0 /\ v[3].v = 0

\* C19: the add action rejects the entered vector, adding no qubit and no list
\* element, when a component is not a number or when the vector is the null
\* vector (0, 0, 0); every other entered vector is normalized to unit length
\* and added as a new qubit whose initial and current coordinates are both
\* the normalized vector, with a new list element.
C19_AddValidation ==
  [][ \A v \in EnteredVectors, randColor \in ColorInputs, randomID \in IdInputs :
        AddVector(v, randColor, randomID) =>
          IF HasNaN(v) \/ IsNullVector(v)
          THEN qbits' = qbits /\ elements' = elements
          ELSE LET normalized == main_normalize(v[1].v, v[2].v, v[3].v)
               IN  /\ IsUnit(normalized)
                   /\ qbits' = Append(qbits, Qbit(randomID, normalized, normalized,
                                                  randColor))
                   /\ Len(elements') = Len(elements) + 1 ]_vars

\* The list elements that carry the class 'selectedVector'.
Highlighted == { k \in 1..Len(elements) : elements[k].selected }

\* C20: at most one list element is highlighted; one is highlighted exactly
\* when selectedQbit is not null; and the highlighted element is the element
\* of the qubit whose id is selectedQbit, the qubit gates are applied to.
C20_HighlightInvariant ==
  /\ Cardinality(Highlighted) <= 1
  /\ (Highlighted # {}) <=> (selectedQbit # Null)
  /\ \A k \in Highlighted :
       /\ elements[k].id = selectedQbit
       /\ getQbit(selectedQbit) # Null

\* C21: selectedQbit is null or the id of a qubit that is in the registry, so
\* the lookup getQbit(selectedQbit) of applyGate always finds a qubit; and
\* right after a delete, of whichever qubit, selectedQbit is null.
C21_SelectionIsValid ==
  /\ selectedQbit = Null \/ getQbit(selectedQbit) # Null
  /\ event.kind = "delete" => selectedQbit = Null

\* One of two qubits was selected (its element is still highlighted) and the
\* other has just been deleted: the selection is cleared.
C21_Witness ==
  /\ event.kind = "delete"
  /\ selectedQbit = Null
  /\ Len(qbits) = 1
  /\ Highlighted # {}
  /\ qbits[1].id # event.id

\* C22: the initial coordinate of a qubit never changes after the qubit is
\* added: in every state the page reaches by add, select, gate, reset and
\* delete actions, each qubit of the registry has as its initial coordinate
\* the normalized vector it was created with.
C22_InitialNeverChanges ==
  \A i \in 1..Len(qbits) : qbits[i].initial = CreatedWith

\* Of two qubits with different ids the first was selected and moved by two
\* gates, then the second was reset: the first is away from its initial
\* coordinate, and both still have the initial coordinate they were created
\* with.
C22_Witness ==
  /\ Len(qbits) = 2
  /\ qbits[1].id # qbits[2].id
  /\ selectedQbit = qbits[1].id
  /\ applied = 2
  /\ event.kind = "reset"
  /\ event.id = qbits[2].id
  /\ qbits[1].current # qbits[1].initial
  /\ qbits[1].initial = CreatedWith
  /\ qbits[2].initial = CreatedWith
  /\ qbits[2].current = CreatedWith

\* C23: a gate action taken while no qubit is selected changes nothing and
\* raises no error: the registry, with every qubit's initial and current
\* coordinate, the list and the selection are as before, and nothing is thrown.
C23_GateWithoutSelection ==
  [][ (event'.kind = "gate" /\ selectedQbit = Null) =>
        /\ qbits' = qbits
        /\ elements' = elements
        /\ selectedQbit' = Null
        /\ thrown' = "none" ]_vars

=============================================================================
